---- MODULE Spec2Model ----
(***************************************************************************)
(* Model of scripts/download_aks_specs.py: one process run is              *)
(*   __main__ -> main() -> download_file(main spec) -> listing request ->  *)
(*   for each listing entry of type "file": download_file(entry) ->        *)
(*   summary -> sys.exit(main()).                                          *)
(* The filesystem (dirs, files) outlives a run; everything else is reset   *)
(* when the next process starts.  The network is the environment: every    *)
(* GET draws its outcome (a raised ConnectionError, an error status, or a  *)
(* 200 with a body / a listing) from a small set.                          *)
(***************************************************************************)
EXTENDS Integers, Sequences, FiniteSets, TLC

\* ------------------------------------------------------------------ bounds
MaxEntries == 2

\* ------------------------------------------------------- program constants
main_spec_url == "BASE_URL/SPEC_PATH/managedClusters.json"

examples_api_url == "api.github.com/contents/SPEC_PATH/examples"

PROJECT_ROOT == << >>

TARGET_DIR == Append(PROJECT_ROOT, "azure_spec")

\* pathlib's "/" operator
Join(path, name) == Append(path, name)

DRY_RUN_FLAG == "--dry-run"

\* ------------------------------------------------------------ environment
Argvs == { <<"scripts/download_aks_specs.py">>,
           <<"scripts/download_aks_specs.py", "--dry-run">> }

Names == {"a.json", "b.json"}

DownloadUrls == {"raw/u1", "raw/u2"}

Bodies == { <<1>>, <<2>> }

ErrorBody == <<0>>

OkStatus == {200}

ErrorStatus == {404, 500}

\* the entries a directory listing can hold: files carry a download URL,
\* every other type carries none
Entries ==
    [type : {"file"}, name : Names, download_url : DownloadUrls]
        \cup [type : {"dir"}, name : Names, download_url : {"null"}]

SeqsUpTo(S, n) == UNION { [1..k -> S] : k \in 0..n }

Listings == SeqsUpTo(Entries, MaxEntries)

\* what requests.get can return for a file URL / for the listing URL
FileResponses ==
    [status : OkStatus, content : Bodies]
        \cup [status : ErrorStatus, content : {ErrorBody}]

ListingResponses ==
    [status : OkStatus, content : Listings]
        \cup [status : ErrorStatus, content : {<< >>}]

NoResponse == [status |-> 0, content |-> << >>]

\* ---------------------------------------------------------------- helpers
\* `flag in sys.argv`
InArgv(flag, args) == \E k \in 1..Len(args) : args[k] = flag

\* Python exception classes: isinstance(e, cls)
IsInstance(e, cls) ==
    \/ e = cls
    \/ cls = "RequestException" /\ e \in {"ConnectionError", "HTTPError"}
    \/ cls = "BaseException" /\ e # "None"

\* response.raise_for_status(): the exception it raises, or "None"
raise_for_status(r) ==
    IF r.status >= 400 /\ r.status < 600 THEN "HTTPError" ELSE "None"

\* the non-empty prefixes of a path: the directories os.makedirs creates
Prefixes(path) == { SubSeq(path, 1, k) : k \in 1..Len(path) }

\* mutant of makedirs: exist_ok is ignored, an existing directory is an error
makedirs_without_exist_ok(ds, fs, path, exist_ok) ==
    IF path \in DOMAIN fs \/ path \in ds
    THEN [exc |-> "FileExistsError", dirs |-> ds]
    ELSE [exc |-> "None", dirs |-> ds \cup Prefixes(path)]

\* os.makedirs(path, exist_ok): the new set of directories, or the exception
makedirs(ds, fs, path, exist_ok) ==
    IF path \in DOMAIN fs \/ (path \in ds /\ ~exist_ok)
    THEN [exc |-> "FileExistsError", dirs |-> ds]
    ELSE [exc |-> "None", dirs |-> ds \cup Prefixes(path)]

\* with open(dest_path, "wb") as f: f.write(content)
write_binary(fs, path, content) == (path :> content) @@ fs

\* ------------------------------------------------------------------ state
VARIABLES
    argv,        \* sys.argv of the running process
    dry_run,     \* main's local: "--dry-run" in sys.argv
    pc,          \* position of the process
    ret,         \* where download_file returns to: "listing" or "loop"
    url,         \* download_file's argument
    dest_path,   \* download_file's argument
    response,    \* the response object the current frame holds
    exc,         \* the exception in flight, "None" when there is none
    in_try,      \* main is inside its try block (lines 54-72)
    examples,    \* the parsed listing
    idx,         \* how many entries the for loop has taken from examples
    file_count,  \* main's local
    retval,      \* what main returned: << >> or <<code>>
    dirs,        \* filesystem: the directories that exist
    files,       \* filesystem: path -> content, for the files that exist
    stdout,      \* the lines printed to stdout in this run
    stderr,      \* the lines printed to stderr in this run
    exit_status, \* << >> while running, <<status>> once the process ended
    exit_via,    \* how the process ended: "return", "SystemExit", "traceback"
    exit_arg,    \* the argument of the sys.exit call whose SystemExit is in flight
    log,         \* history: the GETs issued in this run, with their outcomes
    written,     \* history: the file writes of this run, <<path, content>>
    dirs0,       \* history: dirs when this run started
    files0,      \* history: files when this run started
    fs_at_call,  \* history: files when download_file was last entered
    prev         \* history: << >>, or <<r>> with r the log and final
                 \* filesystem of the previous run, kept while that run was a
                 \* successful non-dry-run and this run is a non-dry-run that
                 \* has so far received the same responses

vars == << argv, dry_run, pc, ret, url, dest_path, response, exc, in_try,
           examples, idx, file_count, retval, dirs, files, stdout, stderr,
           exit_status, exit_via, exit_arg, log, written, dirs0, files0,
           fs_at_call, prev >>

frame == << ret, url, dest_path >>

fsys == << dirs, files >>

locals == << examples, idx, file_count >>

run0 == << argv, dry_run, dirs0, files0 >>

ending == << retval, exit_status, exit_via, exit_arg >>

\* one GET of the history
LogEntry(u, d, k, e, r) ==
    [url |-> u, dest |-> d, entry |-> k, raised |-> e, response |-> r]

\* the previous run stays comparable while the new log is a prefix of its log
KeepPrev(newlog) ==
    IF /\ prev # << >>
       /\ Len(newlog) <= Len(prev[1].log)
       /\ newlog[Len(newlog)] = prev[1].log[Len(newlog)]
    THEN prev
    ELSE << >>

Init ==
    /\ argv = << >>
    /\ dry_run = FALSE
    /\ pc = "idle"
    /\ ret = "none"
    /\ url = "none"
    /\ dest_path = << >>
    /\ response = NoResponse
    /\ exc = "None"
    /\ in_try = FALSE
    /\ examples = << >>
    /\ idx = 0
    /\ file_count = 0
    /\ retval = << >>
    /\ dirs = {}
    /\ files = << >>
    /\ stdout = << >>
    /\ stderr = << >>
    /\ exit_status = << >>
    /\ exit_via = "none"
    /\ exit_arg = << >>
    /\ log = << >>
    /\ written = << >>
    /\ dirs0 = {}
    /\ files0 = << >>
    /\ fs_at_call = << >>
    /\ prev = << >>

\* ------------------------------------------------------------- __main__
\* A process starts (lines 92-95), enters main and evaluates lines 32-36.
Start(args) ==
    /\ pc \in {"idle", "exited"}
    /\ argv' = args
    /\ dry_run' = InArgv(DRY_RUN_FLAG, args)
    /\ stdout' = << <<"Script arguments", args>>, <<"Project root">>,
                    <<"Target directory">>, <<"Target directory">> >>
                 \o (IF InArgv(DRY_RUN_FLAG, args)
                     THEN << <<"Dry run mode">> >> ELSE << >>)
    /\ stderr' = << >>
    /\ pc' = "makedirs"
    /\ ret' = "none"
    /\ url' = "none"
    /\ dest_path' = << >>
    /\ response' = NoResponse
    /\ exc' = "None"
    /\ in_try' = FALSE
    /\ examples' = << >>
    /\ idx' = 0
    /\ file_count' = 0
    /\ retval' = << >>
    /\ exit_status' = << >>
    /\ exit_via' = "none"
    /\ exit_arg' = << >>
    /\ log' = << >>
    /\ written' = << >>
    /\ dirs0' = dirs
    /\ files0' = files
    /\ fs_at_call' = files
    /\ prev' = IF /\ pc = "exited"
                  /\ ~dry_run
                  /\ exit_status = <<0>>
                  /\ ~InArgv(DRY_RUN_FLAG, args)
               THEN << [log |-> log, dirs |-> dirs, files |-> files] >>
               ELSE << >>
    /\ UNCHANGED fsys

\* mutant of MakeDirs: the directories are created in dry-run mode too
MakeDirs_ignoring_dry_run ==
    /\ pc = "makedirs"
    /\ dirs' = makedirs(makedirs(dirs, files, TARGET_DIR, TRUE).dirs, files,
                        Join(TARGET_DIR, "examples"), TRUE).dirs
    /\ exc' = "None"
    /\ pc' = "call_main_spec"
    /\ stdout' = Append(stdout, <<"Downloading AKS API specs">>)
    /\ UNCHANGED << run0, frame, response, in_try, locals, ending, files,
                    stderr, log, written, fs_at_call, prev >>

\* lines 38-43: create the target directories unless in dry-run mode
MakeDirs ==
    /\ pc = "makedirs"
    /\ IF dry_run
       THEN /\ dirs' = dirs
            /\ exc' = "None"
       ELSE LET first == makedirs(dirs, files, TARGET_DIR, TRUE)
                second == makedirs(first.dirs, files,
                                   Join(TARGET_DIR, "examples"), TRUE)
            IN  IF first.exc # "None"
                THEN /\ dirs' = first.dirs
                     /\ exc' = first.exc
                ELSE /\ dirs' = second.dirs
                     /\ exc' = second.exc
    /\ IF exc' # "None"
       THEN /\ pc' = "main_raise"
            /\ stdout' = stdout
       ELSE /\ pc' = "call_main_spec"
            /\ stdout' = Append(stdout, <<"Downloading AKS API specs">>)
    /\ UNCHANGED << run0, frame, response, in_try, locals, ending, files,
                    stderr, log, written, fs_at_call, prev >>

\* lines 45-48: call download_file for the main spec file
CallDownloadMainSpec ==
    /\ pc = "call_main_spec"
    /\ stdout' = Append(stdout, <<"Downloading managedClusters.json">>)
    /\ url' = main_spec_url
    /\ dest_path' = Join(TARGET_DIR, "managedClusters.json")
    /\ ret' = "listing"
    /\ fs_at_call' = files
    /\ pc' = "df_entry"
    /\ UNCHANGED << run0, response, exc, in_try, locals, ending, fsys,
                    stderr, log, written, prev >>

\* ---------------------------------------------------------- download_file
\* the outcomes of requests.get: it raises, or it returns a response
GetOutcomes(responses) ==
    { <<"ConnectionError", NoResponse>> }
        \cup { <<"None", r>> : r \in responses }

\* download_file returns to its caller
Return ==
    /\ pc' = IF ret = "listing" THEN "get_examples" ELSE "for_example"
    /\ ret' = "none"
    /\ url' = "none"
    /\ dest_path' = << >>
    /\ response' = NoResponse

\* lines 79-81: skip the download in dry-run mode
DownloadFile_Entry ==
    /\ pc = "df_entry"
    /\ IF InArgv(DRY_RUN_FLAG, argv)
       THEN Return
       ELSE /\ pc' = "df_get"
            /\ UNCHANGED << frame, response >>
    /\ UNCHANGED << run0, exc, in_try, locals, ending, fsys, stdout, stderr,
                    log, written, fs_at_call, prev >>

\* line 84: response = requests.get(url)
DownloadFile_Get(outcome) ==
    /\ pc = "df_get"
    /\ log' = Append(log, LogEntry(url, dest_path,
                                   IF ret = "loop" THEN idx ELSE 0,
                                   outcome[1], outcome[2]))
    /\ prev' = KeepPrev(log')
    /\ exc' = outcome[1]
    /\ response' = outcome[2]
    /\ pc' = IF outcome[1] # "None" THEN "df_raise" ELSE "df_status"
    /\ UNCHANGED << run0, frame, in_try, locals, ending, fsys, stdout, stderr,
                    written, fs_at_call >>

\* mutant of DownloadFile_RaiseForStatus: the status is not checked
DownloadFile_without_raise_for_status ==
    /\ pc = "df_status"
    /\ exc' = "None"
    /\ pc' = "df_write"
    /\ UNCHANGED << run0, frame, response, in_try, locals, ending, fsys,
                    stdout, stderr, log, written, fs_at_call, prev >>

\* line 85: response.raise_for_status()
DownloadFile_RaiseForStatus ==
    /\ pc = "df_status"
    /\ exc' = raise_for_status(response)
    /\ pc' = IF exc' # "None" THEN "df_raise" ELSE "df_write"
    /\ UNCHANGED << run0, frame, response, in_try, locals, ending, fsys,
                    stdout, stderr, log, written, fs_at_call, prev >>

\* lines 86-87: write the body to the destination, then return
DownloadFile_Write ==
    /\ pc = "df_write"
    /\ files' = write_binary(files, dest_path, response.content)
    /\ written' = Append(written, <<dest_path, response.content>>)
    /\ Return
    /\ UNCHANGED << run0, exc, in_try, locals, ending, dirs, stdout, stderr,
                    log, fs_at_call, prev >>

\* mutant of DownloadFile_Except: the error is printed and download_file
\* returns, so the run goes on
DownloadFile_Except_continuing ==
    /\ pc = "df_raise"
    /\ stderr' = Append(stderr, <<"Failed to download", url>>)
    /\ exc' = "None"
    /\ Return
    /\ UNCHANGED << run0, in_try, locals, ending, fsys, stdout, log, written,
                    fs_at_call, prev >>

\* mutant of DownloadFile_Except: the files this run wrote are removed before
\* the process ends
DownloadFile_Except_with_rollback ==
    /\ pc = "df_raise"
    /\ stderr' = Append(stderr, <<"Failed to download", url>>)
    /\ files' = [ p \in DOMAIN files
                      \ { written[k][1] : k \in 1..Len(written) }
                  |-> files[p] ]
    /\ exc' = "SystemExit"
    /\ exit_arg' = <<1>>
    /\ pc' = "main_raise"
    /\ UNCHANGED << run0, frame, response, in_try, locals, retval,
                    exit_status, exit_via, dirs, stdout, log, written,
                    fs_at_call, prev >>

\* lines 88-90: except RequestException: print the error, sys.exit(1);
\* any other exception leaves download_file as it is
DownloadFile_Except ==
    /\ pc = "df_raise"
    /\ IF IsInstance(exc, "RequestException")
       THEN /\ stderr' = Append(stderr, <<"Failed to download", url>>)
            /\ exc' = "SystemExit"
            /\ exit_arg' = <<1>>
       ELSE UNCHANGED << stderr, exc, exit_arg >>
    /\ pc' = "main_raise"
    /\ UNCHANGED << run0, frame, response, in_try, locals, retval,
                    exit_status, exit_via, fsys, stdout, log, written,
                    fs_at_call, prev >>

\* ------------------------------------------------------------------ main
\* mutant of Main_GetExamples: dry-run mode skips the listing request as well
Main_GetExamples_skipped_in_dry_run(outcome) ==
    /\ pc = "get_examples"
    /\ stdout' = Append(stdout, <<"Getting list of example files">>)
    /\ in_try' = TRUE
    /\ IF dry_run
       THEN /\ pc' = "summary"
            /\ UNCHANGED << log, prev, exc, response >>
       ELSE /\ log' = Append(log, LogEntry(examples_api_url, << >>, 0,
                                           outcome[1], outcome[2]))
            /\ prev' = KeepPrev(log')
            /\ exc' = outcome[1]
            /\ response' = outcome[2]
            /\ pc' = IF outcome[1] # "None"
                     THEN "main_raise" ELSE "examples_status"
    /\ UNCHANGED << run0, frame, locals, ending, fsys, stderr, written,
                    fs_at_call >>

\* lines 50-55: enter the try block and request the listing
Main_GetExamples(outcome) ==
    /\ pc = "get_examples"
    /\ stdout' = Append(stdout, <<"Getting list of example files">>)
    /\ in_try' = TRUE
    /\ log' = Append(log, LogEntry(examples_api_url, << >>, 0,
                                   outcome[1], outcome[2]))
    /\ prev' = KeepPrev(log')
    /\ exc' = outcome[1]
    /\ response' = outcome[2]
    /\ pc' = IF outcome[1] # "None" THEN "main_raise" ELSE "examples_status"
    /\ UNCHANGED << run0, frame, locals, ending, fsys, stderr, written,
                    fs_at_call >>

\* line 56: response.raise_for_status()
Main_RaiseForStatus ==
    /\ pc = "examples_status"
    /\ exc' = raise_for_status(response)
    /\ pc' = IF exc' # "None" THEN "main_raise" ELSE "examples_json"
    /\ UNCHANGED << run0, frame, response, in_try, locals, ending, fsys,
                    stdout, stderr, log, written, fs_at_call, prev >>

\* lines 57-61: examples = response.json(); file_count = 0
Main_Json ==
    /\ pc = "examples_json"
    /\ examples' = response.content
    /\ stdout' = Append(stdout, <<"Downloading example files">>)
    /\ file_count' = 0
    /\ idx' = 0
    /\ response' = NoResponse
    /\ pc' = "for_example"
    /\ UNCHANGED << run0, frame, exc, in_try, ending, fsys, stderr, log,
                    written, fs_at_call, prev >>

\* mutant of Main_ForExample: the entry's type is not looked at
Main_ForExample_without_type_check ==
    /\ pc = "for_example"
    /\ IF idx = Len(examples)
       THEN /\ pc' = "summary"
            /\ UNCHANGED << frame, locals, stdout, fs_at_call >>
       ELSE LET example == examples[idx + 1]
            IN  /\ idx' = idx + 1
                /\ examples' = examples
                /\ file_count' = file_count + 1
                /\ stdout' = Append(stdout, <<"  - ", example.name>>)
                /\ url' = example.download_url
                /\ dest_path' = Join(Join(TARGET_DIR, "examples"),
                                     example.name)
                /\ ret' = "loop"
                /\ fs_at_call' = files
                /\ pc' = "df_entry"
    /\ UNCHANGED << run0, response, exc, in_try, ending, fsys, stderr, log,
                    written, prev >>

\* lines 62-68: one turn of the for loop; a "file" entry is counted and
\* download_file is called for it, any other entry is passed over
Main_ForExample ==
    /\ pc = "for_example"
    /\ IF idx = Len(examples)
       THEN /\ pc' = "summary"
            /\ UNCHANGED << frame, locals, stdout, fs_at_call >>
       ELSE LET example == examples[idx + 1]
            IN  /\ idx' = idx + 1
                /\ examples' = examples
                /\ IF example.type = "file"
                   THEN /\ file_count' = file_count + 1
                        /\ stdout' = Append(stdout, <<"  - ", example.name>>)
                        /\ url' = example.download_url
                        /\ dest_path' = Join(Join(TARGET_DIR, "examples"),
                                             example.name)
                        /\ ret' = "loop"
                        /\ fs_at_call' = files
                        /\ pc' = "df_entry"
                   ELSE /\ pc' = "for_example"
                        /\ UNCHANGED << frame, file_count, stdout,
                                        fs_at_call >>
    /\ UNCHANGED << run0, response, exc, in_try, ending, fsys, stderr, log,
                    written, prev >>

\* mutant of Main_Summary: the summary leaves out the main spec file
Main_Summary_without_main_spec ==
    /\ pc = "summary"
    /\ stdout' = Append(stdout, <<"Download completed",
                                  InArgv(DRY_RUN_FLAG, argv), file_count>>)
    /\ retval' = <<0>>
    /\ in_try' = FALSE
    /\ pc' = "sys_exit"
    /\ UNCHANGED << run0, frame, response, exc, locals, exit_status, exit_via,
                    exit_arg, fsys, stderr, log, written, fs_at_call, prev >>

\* lines 70-72: print the summary and return 0
Main_Summary ==
    /\ pc = "summary"
    /\ stdout' = Append(stdout, <<"Download completed",
                                  InArgv(DRY_RUN_FLAG, argv), file_count + 1>>)
    /\ retval' = <<0>>
    /\ in_try' = FALSE
    /\ pc' = "sys_exit"
    /\ UNCHANGED << run0, frame, response, exc, locals, exit_status, exit_via,
                    exit_arg, fsys, stderr, log, written, fs_at_call, prev >>

\* mutant of Main_Except: the clause catches HTTPError only
Main_Except_HTTPError_only ==
    /\ pc = "main_raise"
    /\ IF in_try /\ IsInstance(exc, "HTTPError")
       THEN /\ stderr' = Append(stderr, <<"Failed to get list of example files">>)
            /\ retval' = <<1>>
            /\ exc' = "None"
            /\ pc' = "sys_exit"
       ELSE /\ pc' = "uncaught"
            /\ UNCHANGED << stderr, retval, exc >>
    /\ in_try' = FALSE
    /\ UNCHANGED << run0, frame, response, locals, exit_status, exit_via,
                    exit_arg, fsys, stdout, log, written, fs_at_call, prev >>

\* mutant of Main_Except: a bare except clause, which catches SystemExit too
Main_Except_bare ==
    /\ pc = "main_raise"
    /\ IF in_try /\ IsInstance(exc, "BaseException")
       THEN /\ stderr' = Append(stderr, <<"Failed to get list of example files">>)
            /\ retval' = <<1>>
            /\ exc' = "None"
            /\ pc' = "sys_exit"
       ELSE /\ pc' = "uncaught"
            /\ UNCHANGED << stderr, retval, exc >>
    /\ in_try' = FALSE
    /\ UNCHANGED << run0, frame, response, locals, exit_status, exit_via,
                    exit_arg, fsys, stdout, log, written, fs_at_call, prev >>

\* an exception reaches main's frame: lines 73-75 catch a RequestException
\* raised inside the try block, print the error and return 1; anything else
\* leaves main
Main_Except ==
    /\ pc = "main_raise"
    /\ IF in_try /\ IsInstance(exc, "RequestException")
       THEN /\ stderr' = Append(stderr, <<"Failed to get list of example files">>)
            /\ retval' = <<1>>
            /\ exc' = "None"
            /\ pc' = "sys_exit"
       ELSE /\ pc' = "uncaught"
            /\ UNCHANGED << stderr, retval, exc >>
    /\ in_try' = FALSE
    /\ UNCHANGED << run0, frame, response, locals, exit_status, exit_via,
                    exit_arg, fsys, stdout, log, written, fs_at_call, prev >>

\* line 96: sys.exit(main()) with the value main returned
Process_SysExit ==
    /\ pc = "sys_exit"
    /\ exit_status' = retval
    /\ exit_via' = "return"
    /\ pc' = "exited"
    /\ UNCHANGED << run0, frame, response, exc, in_try, locals, retval,
                    exit_arg, fsys, stdout, stderr, log, written, fs_at_call,
                    prev >>

\* an exception leaves main: SystemExit ends the process with its argument,
\* any other exception with a traceback and status 1
Process_Uncaught ==
    /\ pc = "uncaught"
    /\ IF exc = "SystemExit"
       THEN /\ exit_status' = exit_arg
            /\ exit_via' = "SystemExit"
            /\ stderr' = stderr
       ELSE /\ exit_status' = <<1>>
            /\ exit_via' = "traceback"
            /\ stderr' = Append(stderr, <<"Traceback", exc>>)
    /\ pc' = "exited"
    /\ UNCHANGED << run0, frame, response, exc, in_try, locals, retval,
                    exit_arg, fsys, stdout, log, written, fs_at_call, prev >>

\* ------------------------------------------------------------ specification
Next ==
    \/ \E args \in Argvs : Start(args)
    \/ MakeDirs
    \/ CallDownloadMainSpec
    \/ DownloadFile_Entry
    \/ \E outcome \in GetOutcomes(FileResponses) : DownloadFile_Get(outcome)
    \/ DownloadFile_RaiseForStatus
    \/ DownloadFile_Write
    \/ DownloadFile_Except
    \/ \E outcome \in GetOutcomes(ListingResponses) : Main_GetExamples(outcome)
    \/ Main_RaiseForStatus
    \/ Main_Json
    \/ Main_ForExample
    \/ Main_Summary
    \/ Main_Except
    \/ Process_SysExit
    \/ Process_Uncaught

Spec == Init /\ [][Next]_vars

\* ------------------------------------------------- vocabulary of the claims
EXAMPLES_DIR == Join(TARGET_DIR, "examples")

\* a GET failed: requests.get raised, or the status makes raise_for_status raise
Failed(e) == e.raised # "None" \/ raise_for_status(e.response) # "None"

IsListingRequest(e) == e.url = examples_api_url /\ e.dest = << >>

IsDownload(e) == e.dest # << >>

IsExampleDownload(e) == IsDownload(e) /\ e.entry > 0

LogIdx == 1..Len(log)

ListingFailed == \E k \in LogIdx : IsListingRequest(log[k]) /\ Failed(log[k])

ListingSucceeded == \E k \in LogIdx : IsListingRequest(log[k]) /\ ~Failed(log[k])

DownloadFailed == \E k \in LogIdx : IsDownload(log[k]) /\ Failed(log[k])

Started == pc # "idle"

Exited == pc = "exited"

Max(S) == CHOOSE x \in S : \A y \in S : y <= x

\* the body of the last successful write of this run to path
LastWritten(path) ==
    written[Max({ k \in 1..Len(written) : written[k][1] = path })][2]

\* the body of the last response of this run for destination path
LastResponseFor(path) ==
    log[Max({ k \in LogIdx : log[k].dest = path })].response.content

FileEntries == { k \in 1..Len(examples) : examples[k].type = "file" }

SummaryLines == { k \in 1..Len(stdout) : stdout[k][1] = "Download completed" }

ListingErrorPrinted ==
    \E k \in 1..Len(stderr) : stderr[k][1] = "Failed to get list of example files"

\* ------------------------------------------------------------------ claims

\* C1: with --dry-run in the argument list a run creates no directory and
\* writes no file, whatever the network answers: during and after the run the
\* filesystem equals the filesystem at the start of the run.
C1_DryRunLeavesFilesystem ==
    (Started /\ InArgv(DRY_RUN_FLAG, argv)) =>
        /\ dirs = dirs0
        /\ files = files0
        /\ written = << >>

\* C1 witness: a dry run that ended after a listing with file entries
C1_Witness ==
    /\ Exited
    /\ InArgv(DRY_RUN_FLAG, argv)
    /\ FileEntries # {}
    /\ exit_status = <<0>>

\* C2: when the listing request fails, main returns 1 and no example download
\* is attempted: no GET for an entry is issued, nothing is written under
\* TARGET_DIR/examples, and the process ends with status 1 by main's return.
C2_ListingFailureReturnsOne ==
    ListingFailed =>
        /\ \A k \in LogIdx : ~IsExampleDownload(log[k])
        /\ \A k \in 1..Len(written) :
               SubSeq(written[k][1], 1, Len(EXAMPLES_DIR)) # EXAMPLES_DIR
        /\ examples = << >>
        /\ pc \in {"examples_status", "main_raise", "sys_exit", "exited"}
        /\ pc \in {"sys_exit", "exited"} => retval = <<1>>
        /\ Exited => (exit_status = <<1>> /\ exit_via = "return")

\* C2 witness: a run ended by a failed listing request
C2_Witness ==
    /\ Exited
    /\ ListingFailed
    /\ ListingErrorPrinted

\* C3: in a non-dry-run a failed download (main spec file or a listing entry)
\* ends the process at once with a non-zero status: the failed GET is the last
\* request, the loop stays at the failing entry, nothing more is written, and
\* the exit is a SystemExit that main's except clause does not turn into the
\* listing-failure return.
C3_DownloadFailureIsFatal ==
    \A k \in LogIdx :
        (IsDownload(log[k]) /\ Failed(log[k])) =>
            /\ ~dry_run
            /\ k = Len(log)
            /\ idx = log[k].entry
            /\ Len(written) =
                   Cardinality({ j \in 1..(k - 1) : IsDownload(log[j]) })
            /\ pc \in {"df_status", "df_raise", "main_raise", "uncaught",
                       "exited"}
            /\ retval = << >>
            /\ ~ListingErrorPrinted
            /\ Exited => /\ exit_status \in {<<1>>}
                         /\ exit_via = "SystemExit"

\* C3 witness: the run ended because the download of a later listing entry
\* failed after an earlier one was written
C3_Witness ==
    /\ Exited
    /\ DownloadFailed
    /\ idx >= 1
    /\ idx < Len(examples)
    /\ Len(written) >= 1

\* C4: a run ends with status 0 exactly when the listing request succeeded
\* and every download that was attempted succeeded; every other run ends with
\* status 1.
C4_ExitCode ==
    Exited =>
        /\ exit_status \in {<<0>>, <<1>>}
        /\ exit_status = <<0>> <=> (ListingSucceeded /\ ~DownloadFailed)

\* C4 witness: a non-dry-run that ended with status 0 after downloading the
\* main spec file and an example
C4_Witness ==
    /\ Exited
    /\ ~dry_run
    /\ exit_status = <<0>>
    /\ \E k \in LogIdx : IsExampleDownload(log[k])

\* C5: after a successful listing with N entries of type "file" the summary
\* reports N + 1 files, in dry-run and in non-dry-run mode: a summary line
\* never reports another number, and a run whose listing request succeeded
\* and in which no download failed ends with exactly that one summary line.
C5_SummaryCount ==
    /\ \A k \in SummaryLines :
           /\ stdout[k][3] = Cardinality(FileEntries) + 1
           /\ stdout[k][2] = dry_run
    /\ (Exited /\ ListingSucceeded /\ ~DownloadFailed) =>
           /\ Cardinality(SummaryLines) = 1
           /\ Len(stdout) \in SummaryLines

\* C5 witness: a summary printed for a listing that mixes file entries with
\* entries of another type
C5_Witness ==
    /\ SummaryLines # {}
    /\ FileEntries # {}
    /\ Cardinality(FileEntries) < Len(examples)

\* C6: entries whose type is not "file" are neither downloaded nor counted:
\* no GET carries such an entry's index, every example GET is the GET of a
\* file entry's download_url into TARGET_DIR/examples/<name>, every write
\* under TARGET_DIR/examples is the write of a file entry, and file_count is
\* the number of file entries the loop has taken so far.
C6_OnlyFileEntries ==
    /\ \A k \in LogIdx :
           IsExampleDownload(log[k]) =>
               /\ log[k].entry \in FileEntries
               /\ log[k].url = examples[log[k].entry].download_url
               /\ log[k].dest = Join(EXAMPLES_DIR, examples[log[k].entry].name)
    /\ \A k \in 1..Len(written) :
           SubSeq(written[k][1], 1, Len(EXAMPLES_DIR)) = EXAMPLES_DIR =>
               \E e \in FileEntries :
                   /\ e <= idx
                   /\ written[k][1] = Join(EXAMPLES_DIR, examples[e].name)
    /\ file_count = Cardinality({ e \in FileEntries : e <= idx })

\* C6 witness: a non-dry-run completed a listing whose entries are all of
\* another type than "file"
C6_Witness ==
    /\ Exited
    /\ ~dry_run
    /\ Len(examples) >= 2
    /\ FileEntries = {}
    /\ exit_status = <<0>>

\* C7: a non-dry-run executed again against the same responses, all
\* succeeding, completes with status 0 and leaves the filesystem as the first
\* run left it; after every successful non-dry-run each output file holds the
\* body of the latest response for it.
C7_RerunIdempotent ==
    /\ (Exited /\ prev # << >>) =>
           /\ exit_status = <<0>>
           /\ log = prev[1].log
           /\ dirs = prev[1].dirs
           /\ files = prev[1].files
    /\ (Exited /\ ~dry_run /\ exit_status = <<0>>) =>
           \A k \in LogIdx :
               IsDownload(log[k]) =>
                   /\ log[k].dest \in DOMAIN files
                   /\ files[log[k].dest] = LastResponseFor(log[k].dest)

\* C7 witness: the second of two equal successful runs ended, having
\* rewritten the main spec file and an example
C7_Witness ==
    /\ Exited
    /\ prev # << >>
    /\ Len(written) >= 2
    /\ DOMAIN files0 # {}

\* C8: there is no rollback: when a run ends with a failure, every file it
\* wrote before the failure is in place with the content last written to it,
\* every successful download of the run was written, and the directories it
\* created and the files it found are still there.
C8_NoRollback ==
    (Exited /\ exit_status # <<0>>) =>
        /\ Len(written) =
               Cardinality({ k \in LogIdx : IsDownload(log[k]) /\ ~Failed(log[k]) })
        /\ \A k \in 1..Len(written) :
               /\ written[k][1] \in DOMAIN files
               /\ files[written[k][1]] = LastWritten(written[k][1])
        /\ ~dry_run => {TARGET_DIR, EXAMPLES_DIR} \subseteq dirs
        /\ dirs0 \subseteq dirs
        /\ DOMAIN files0 \subseteq DOMAIN files

\* C8 witness: the first run on an empty filesystem was ended by a failed
\* example download after the main spec file was written
C8_Witness ==
    /\ Exited
    /\ exit_via = "SystemExit"
    /\ dirs0 = {}
    /\ Len(written) >= 1
    /\ Join(TARGET_DIR, "managedClusters.json") \in DOMAIN files

\* C9: a dry run issues exactly one HTTP request, the GET of the listing,
\* after the skipped main spec download, and no GET of a file; it ends with
\* status 1 when that request fails and with status 0 when it succeeds.
C9_DryRunStillLists ==
    (Started /\ InArgv(DRY_RUN_FLAG, argv)) =>
        /\ Len(log) <= 1
        /\ \A k \in LogIdx :
               /\ IsListingRequest(log[k])
               /\ \E j \in 1..Len(stdout) :
                      stdout[j][1] = "Downloading managedClusters.json"
        /\ Exited =>
               /\ Len(log) = 1
               /\ exit_status = IF Failed(log[1]) THEN <<1>> ELSE <<0>>

\* C9 witness: a dry run ended with status 1 because the listing request failed
C9_Witness ==
    /\ Exited
    /\ InArgv(DRY_RUN_FLAG, argv)
    /\ exit_status = <<1>>

\* C10: a failed download never touches its destination: the destination is
\* opened only after the GET returned and raise_for_status passed, so until
\* then, and for good when the request fails, the files are as they were when
\* download_file was called: the destination is neither created nor truncated.
C10_FailedDownloadKeepsDestination ==
    /\ pc \in {"df_entry", "df_get", "df_status", "df_raise"} =>
           files = fs_at_call
    /\ \A k \in LogIdx :
           (IsDownload(log[k]) /\ Failed(log[k])) =>
               /\ log[k].dest \in DOMAIN files <=> log[k].dest \in DOMAIN fs_at_call
               /\ log[k].dest \in DOMAIN files =>
                      files[log[k].dest] = fs_at_call[log[k].dest]

\* C10 witness: the download of a file that an earlier run left behind failed
C10_Witness ==
    /\ Exited
    /\ DownloadFailed
    /\ log[Len(log)].dest \in DOMAIN files0
    /\ files[log[Len(log)].dest] = files0[log[Len(log)].dest]

====
